---- MODULE Spec2Model ----
(***************************************************************************)
(* Model of src/src/Scraper.js: the credential check done at module load,  *)
(* the Scraper class (constructor, log, initialize, login, close) and the  *)
(* example run main().                                                     *)
(*                                                                         *)
(* JavaScript runs one task at a time, so the atomic steps are the pieces  *)
(* of code between two awaits.  An awaited puppeteer call is one action,   *)
(* taken when the call settles: it either resolves ("ok") or rejects       *)
(* ("fail").  A Scraper is driven either by main() (Scraper.js:176-198) or *)
(* by the code that imported the module and got the class through          *)
(* module.exports (Scraper.js:203).                                        *)
(***************************************************************************)
EXTENDS Integers, Sequences, FiniteSets, TLC

\* The most browsers one Scraper launches (initialize() calls that launch).
MaxLaunch == 2
\* The most method calls the importing code makes on its Scraper.
MaxCalls == 3

Scrapers == {"m", "u"}
Procs == {"p1", "p2"}
Null == 0
BrowserIds == 1..MaxLaunch

requiredEnvVars == {"CREDENTIALS_ID", "CREDENTIALS_PASSWORD", "CREDENTIALS_CODE"}
EnvValues == {"unset", "empty", "set"}
Methods == {"initialize", "login", "close"}

\* The awaited browser calls that do the work of a run, in no particular order.
FunctionalSteps ==
    {"launch", "newPage", "goto", "typeId", "typePassword", "typeCode",
     "click", "waitForNavigation", "browserClose"}
PageSteps == {"goto", "typeId", "typePassword", "typeCode", "click", "waitForNavigation"}
Outcomes == {"ok", "fail"}
NoFate == <<>>

VARIABLES
    env,        \* process.env: requiredEnvVars -> EnvValues
    proc,       \* Procs -> "loading" | "running" | "exited1"
    host,       \* Scrapers -> the process the Scraper lives in
    fate,       \* NoFate, or FunctionalSteps -> Outcomes fixed for both runs
    debug,      \* this.debug
    headless,   \* this.headless
    browser,    \* this.browser: Null or the id of a browser this Scraper launched
    page,       \* this.page: Null or the id of the browser the page belongs to
    pc,         \* Scrapers -> the awaited call the running method is suspended at
    ret,        \* Scrapers -> result of the last finished method call
    err,        \* Scrapers -> the error held by a catch block that is taking a screenshot
    mpc,        \* Scrapers -> position of the driver (main(), or the importing code)
    calls,      \* Scrapers -> method calls made by the importing code
    launches,   \* Scrapers -> browsers launched by this Scraper so far
    bst,        \* Scrapers -> BrowserIds -> "none" | "live" | "closed"
    bcls,       \* Scrapers -> BrowserIds -> times browser.close() was called on it
    bopt,       \* Scrapers -> BrowserIds -> the headless launch option used
    site,       \* Scrapers -> BrowserIds -> what the page shows
    meth,       \* Scrapers -> the method called last: "none" or a member of Methods
    closeCalls, \* Scrapers -> times close() was called on this Scraper
    trace,      \* Scrapers -> sequence of <<functional step, outcome>> settled so far
    diag        \* Scrapers -> kinds of diagnostics emitted: "log", "listener", "shot"

vars == <<env, proc, host, fate, debug, headless, browser, page, pc, ret, err, mpc,
          calls, launches, bst, bcls, bopt, site, meth, closeCalls, trace, diag>>

thisVars == <<debug, headless, browser, page>>
browserVars == <<bst, bcls, bopt, site>>
fixedVars == <<env, host, fate>>
callVars == <<meth, closeCalls>>

----------------------------------------------------------------------------
\* Scraper.js:13  requiredEnvVars.filter(varName => !process.env[varName])
\* An unset variable is undefined and an empty one is "": both are falsy.
\* Mutant: only an unset variable counts as missing (=== undefined).
FalsyUnsetOnly(v) == v = "unset"

Falsy(v) == v \in {"unset", "empty"}

missingVars == {v \in requiredEnvVars : Falsy(env[v])}

Running(s) == proc[host[s]] = "running"

\* Mutant: log() and the listener block lose their debug test.
EmitAlways(s, kinds) == [diag EXCEPT ![s] = @ \cup kinds]

\* Scraper.js:31-35  log(): prints only when this.debug is set.
Emit(s, kinds) == [diag EXCEPT ![s] = IF debug[s] THEN @ \cup kinds ELSE @]

\* A page can be driven only while the browser it belongs to is running.
PageLive(s) == page[s] # Null /\ bst[s][page[s]] = "live"

\* The outcomes a functional step can settle with.
OutcomeSet(step, dead) ==
    IF dead THEN {"fail"}
    ELSE IF fate = NoFate THEN Outcomes
    ELSE {fate[step]}

\* The outcomes a screenshot can settle with: never fixed by fate.
ShotOutcomes(s) == IF PageLive(s) THEN Outcomes ELSE {"fail"}

Record(s, step, o) == [trace EXCEPT ![s] = Append(@, <<step, o>>)]

----------------------------------------------------------------------------
\* Scraper.js:23-29  constructor(options = {}); an option is "undefined", "true" or "false".
OptionValues == {"undefined", "true", "false"}
CtorDebug(opt) == opt = "true"
CtorHeadless(opt) == opt # "false"

\* Scraper.js:39-48  launchOptions.headless: this.headless, overridden by debug.
LaunchHeadless(s) == IF debug[s] THEN FALSE ELSE headless[s]

\* A step inside a try block resolved: go on to the next await, or return.
Continue(s, next) ==
    /\ pc' = [pc EXCEPT ![s] = next]
    /\ ret' = [ret EXCEPT ![s] = IF next = "returned" THEN "ok" ELSE @]
    /\ UNCHANGED err

\* Mutant: the catch block swallows the error and the method returns normally.
ThrowSwallowed(s, catchpc, e) ==
    /\ pc' = [pc EXCEPT ![s] = "returned"]
    /\ ret' = [ret EXCEPT ![s] = "ok"]
    /\ UNCHANGED err

\* A step rejected with error e: its catch block either takes a screenshot
\* first (catchpc) or rethrows at once, which ends the method with e.
Throw(s, catchpc, e) ==
    /\ pc' = [pc EXCEPT ![s] = catchpc]
    /\ IF catchpc = "returned"
       THEN ret' = [ret EXCEPT ![s] = e] /\ UNCHANGED err
       ELSE err' = [err EXCEPT ![s] = e] /\ UNCHANGED ret

\* Scraper.js:87 and 159  if (this.debug && this.page) in the two catch blocks.
InitCatchPc(s) == IF debug[s] /\ page[s] # Null THEN "initErrShot" ELSE "returned"
LoginCatchPc(s) == IF debug[s] /\ page[s] # Null THEN "loginErrShot" ELSE "returned"

\* Scraper.js:37-50  initialize() up to its first await, puppeteer.launch().
EnterInitialize(s) ==
    /\ pc' = [pc EXCEPT ![s] = "launch"]
    /\ ret' = [ret EXCEPT ![s] = "pending"]
    /\ diag' = Emit(s, {"log"})
    /\ meth' = [meth EXCEPT ![s] = "initialize"]
    /\ UNCHANGED closeCalls

\* Mutant: login() without its page check.
EnterLoginNoCheck(s) ==
    /\ pc' = [pc EXCEPT ![s] = "goto"]
    /\ ret' = [ret EXCEPT ![s] = "pending"]
    /\ diag' = Emit(s, {"log"})
    /\ meth' = [meth EXCEPT ![s] = "login"]
    /\ UNCHANGED closeCalls

\* Scraper.js:96-108  login() up to its first await: the page check, then page.goto().
EnterLogin(s) ==
    /\ IF page[s] = Null
       THEN /\ pc' = [pc EXCEPT ![s] = "returned"]
            /\ ret' = [ret EXCEPT ![s] = "PageNotInitialized"]
       ELSE /\ pc' = [pc EXCEPT ![s] = "goto"]
            /\ ret' = [ret EXCEPT ![s] = "pending"]
    /\ diag' = Emit(s, {"log"})
    /\ meth' = [meth EXCEPT ![s] = "login"]
    /\ UNCHANGED closeCalls

\* Scraper.js:168-172  close() up to its await: browser.close() only if this.browser is set.
EnterClose(s) ==
    /\ IF browser[s] # Null
       THEN /\ pc' = [pc EXCEPT ![s] = "browserClose"]
            /\ ret' = [ret EXCEPT ![s] = "pending"]
       ELSE /\ pc' = [pc EXCEPT ![s] = "returned"]
            /\ ret' = [ret EXCEPT ![s] = "ok"]
    /\ diag' = diag
    /\ meth' = [meth EXCEPT ![s] = "close"]
    /\ closeCalls' = [closeCalls EXCEPT ![s] = @ + 1]

Enter(s, m) ==
    CASE m = "initialize" -> EnterInitialize(s)
      [] m = "login" -> EnterLogin(s)
      [] m = "close" -> EnterClose(s)

----------------------------------------------------------------------------
\* initialize()

\* Scraper.js:53-57  puppeteer.launch() settles; on success newPage() is called.
Launch(s) ==
    /\ pc[s] = "launch" /\ Running(s)
    /\ \E o \in OutcomeSet("launch", FALSE) :
        /\ trace' = Record(s, "launch", o)
        /\ IF o = "ok"
           THEN /\ browser' = [browser EXCEPT ![s] = launches[s] + 1]
                /\ launches' = [launches EXCEPT ![s] = @ + 1]
                /\ bst' = [bst EXCEPT ![s][launches[s] + 1] = "live"]
                /\ bopt' = [bopt EXCEPT ![s][launches[s] + 1] = LaunchHeadless(s)]
                /\ site' = [site EXCEPT ![s][launches[s] + 1] = "blank"]
                /\ Continue(s, "newPage")
                /\ diag' = Emit(s, {"log"})
           ELSE /\ Throw(s, InitCatchPc(s), "LaunchError")
                /\ diag' = Emit(s, {"log"})
                /\ UNCHANGED <<browser, launches, bst, bopt, site>>
    /\ UNCHANGED <<fixedVars, proc, debug, headless, page, mpc, calls, callVars, bcls>>

\* Scraper.js:57-81  browser.newPage() settles; on success the default timeout is
\* set and, in debug, the five page listeners are registered; initialize returns.
NewPage(s) ==
    /\ pc[s] = "newPage" /\ Running(s)
    /\ \E o \in OutcomeSet("newPage", bst[s][browser[s]] # "live") :
        /\ trace' = Record(s, "newPage", o)
        /\ IF o = "ok"
           THEN /\ page' = [page EXCEPT ![s] = browser[s]]
                /\ Continue(s, "returned")
                /\ diag' = Emit(s, {"log", "listener"})
           ELSE /\ Throw(s, InitCatchPc(s), "NewPageError")
                /\ diag' = Emit(s, {"log"})
                /\ UNCHANGED page
    /\ UNCHANGED <<fixedVars, proc, debug, headless, browser, mpc, calls, callVars, launches,
                   browserVars>>

\* Scraper.js:87-92  the catch block's screenshot settles; the caught error is
\* rethrown, unless the screenshot itself rejected.
InitErrShot(s) ==
    /\ pc[s] = "initErrShot" /\ Running(s)
    /\ \E o \in ShotOutcomes(s) :
        /\ pc' = [pc EXCEPT ![s] = "returned"]
        /\ ret' = [ret EXCEPT ![s] = IF o = "ok" THEN err[s] ELSE "ScreenshotError"]
    /\ diag' = [diag EXCEPT ![s] = @ \cup {"shot", "log"}]
    /\ UNCHANGED <<fixedVars, proc, thisVars, err, mpc, calls, callVars, launches, browserVars, trace>>

----------------------------------------------------------------------------
\* login()

\* Scraper.js:103-152  the await that follows each await of the try block when it
\* resolves; "returned" is the end of the method.  The three screenshots are
\* awaited only in debug.
\* Mutant: the submit click is awaited before the security code is typed.
AfterOkClickEarly(step, dbg) ==
    CASE step = "goto" -> IF dbg THEN "shotLoginPage" ELSE "typeId"
      [] step = "shotLoginPage" -> "typeId"
      [] step = "typeId" -> "typePassword"
      [] step = "typePassword" -> "click"
      [] step = "click" -> "typeCode"
      [] step = "typeCode" -> IF dbg THEN "shotCreds" ELSE "waitForNavigation"
      [] step = "shotCreds" -> "waitForNavigation"
      [] step = "waitForNavigation" -> IF dbg THEN "shotAfter" ELSE "returned"
      [] step = "shotAfter" -> "returned"

AfterOk(step, dbg) ==
    CASE step = "goto" -> IF dbg THEN "shotLoginPage" ELSE "typeId"
      [] step = "shotLoginPage" -> "typeId"
      [] step = "typeId" -> "typePassword"
      [] step = "typePassword" -> "typeCode"
      [] step = "typeCode" -> IF dbg THEN "shotCreds" ELSE "click"
      [] step = "shotCreds" -> "click"
      [] step = "click" -> "waitForNavigation"
      [] step = "waitForNavigation" -> IF dbg THEN "shotAfter" ELSE "returned"
      [] step = "shotAfter" -> "returned"

ErrorOf(step) ==
    CASE step = "goto" -> "GotoError"
      [] step = "typeId" -> "TypeIdError"
      [] step = "typePassword" -> "TypePasswordError"
      [] step = "typeCode" -> "TypeCodeError"
      [] step = "click" -> "ClickError"
      [] step = "waitForNavigation" -> "WaitForNavigationError"
      [] OTHER -> "ScreenshotError"

\* What the page shows once a step has resolved.
AfterSite(step, shown, verdict) ==
    CASE step = "goto" -> "loginForm"
      [] step = "waitForNavigation" -> verdict
      [] OTHER -> shown

\* One awaited page call of login's try block settles (Scraper.js:105-146).
LoginAwait(s, step, verdict) ==
    /\ pc[s] = step /\ Running(s)
    /\ \E o \in OutcomeSet(step, ~PageLive(s)) :
        /\ trace' = Record(s, step, o)
        /\ IF o = "ok"
           THEN /\ Continue(s, AfterOk(step, debug[s]))
                /\ site' = [site EXCEPT ![s][page[s]] = AfterSite(step, @, verdict)]
           ELSE /\ Throw(s, LoginCatchPc(s), ErrorOf(step))
                /\ UNCHANGED site
    /\ diag' = Emit(s, {"log"})
    /\ UNCHANGED <<fixedVars, proc, thisVars, mpc, calls, callVars, launches, bst, bcls, bopt>>

\* One debug screenshot of login's try block settles (Scraper.js:112-115, 133-136, 149-152).
LoginShot(s, step) ==
    /\ pc[s] = step /\ Running(s)
    /\ \E o \in ShotOutcomes(s) :
        IF o = "ok"
        THEN Continue(s, AfterOk(step, debug[s]))
        ELSE Throw(s, LoginCatchPc(s), ErrorOf(step))
    /\ diag' = [diag EXCEPT ![s] = @ \cup {"shot", "log"}]
    /\ UNCHANGED <<fixedVars, proc, thisVars, mpc, calls, callVars, launches, browserVars, trace>>

\* Scraper.js:105-109  page.goto(login URL) settles.
Goto(s) == LoginAwait(s, "goto", "loginForm")

\* Scraper.js:112-115
ShotLoginPage(s) == LoginShot(s, "shotLoginPage")

\* Scraper.js:119  page.type('input#tzId', credentials.id)
TypeId(s) == LoginAwait(s, "typeId", "loginForm")

\* Scraper.js:123  page.type('input#tzPassword', credentials.password)
TypePassword(s) == LoginAwait(s, "typePassword", "loginForm")

\* Scraper.js:127  page.type('input#aidnum', credentials.code)
TypeCode(s) == LoginAwait(s, "typeCode", "loginForm")

\* Scraper.js:133-136
ShotCreds(s) == LoginShot(s, "shotCreds")

\* Scraper.js:140  page.click(submit button)
Click(s) == LoginAwait(s, "click", "loginForm")

\* Scraper.js:145  page.waitForNavigation() settles.  When it resolves the site
\* has answered the submitted credentials: it shows the account area, or the
\* login page again with its wrong-credentials marker.
WaitForNavigation(s) ==
    \E verdict \in {"dashboard", "rejected"} : LoginAwait(s, "waitForNavigation", verdict)

\* Scraper.js:149-152
ShotAfter(s) == LoginShot(s, "shotAfter")

\* Scraper.js:154-165  the catch block's screenshot settles; the caught error is
\* rethrown, unless the screenshot itself rejected.
LoginErrShot(s) ==
    /\ pc[s] = "loginErrShot" /\ Running(s)
    /\ \E o \in ShotOutcomes(s) :
        /\ pc' = [pc EXCEPT ![s] = "returned"]
        /\ ret' = [ret EXCEPT ![s] = IF o = "ok" THEN err[s] ELSE "ScreenshotError"]
    /\ diag' = [diag EXCEPT ![s] = @ \cup {"shot", "log"}]
    /\ UNCHANGED <<fixedVars, proc, thisVars, err, mpc, calls, callVars, launches, browserVars, trace>>

----------------------------------------------------------------------------
\* close()

\* Scraper.js:170  this.browser.close() settles.  When it resolves the browser
\* process is gone; close() leaves this.browser and this.page as they were.
BrowserClose(s) ==
    /\ pc[s] = "browserClose" /\ Running(s)
    /\ \E o \in OutcomeSet("browserClose", FALSE) :
        /\ trace' = Record(s, "browserClose", o)
        /\ bcls' = [bcls EXCEPT ![s][browser[s]] = @ + 1]
        /\ IF o = "ok"
           THEN /\ bst' = [bst EXCEPT ![s][browser[s]] = "closed"]
                /\ Continue(s, "returned")
           ELSE /\ Throw(s, "returned", "CloseError")
                /\ UNCHANGED bst
    /\ UNCHANGED <<fixedVars, proc, thisVars, mpc, calls, callVars, launches, bopt, site, diag>>

----------------------------------------------------------------------------
\* main()  (Scraper.js:176-198), started at module load (Scraper.js:201)

MainDriven(s) == mpc[s] \in {"start", "initialize", "login", "sleep", "close",
                             "done", "exit", "rejected"}

\* Scraper.js:11-20 and 201  the module is loaded: the credentials are checked
\* and, when one is missing, process.exit(1) ends the process before main() is
\* called.  Otherwise main() constructs its Scraper and runs up to its first
\* await, inside initialize().
Load(p) ==
    /\ proc[p] = "loading"
    /\ \E s \in Scrapers : host[s] = p
    /\ IF missingVars # {}
       THEN /\ proc' = [proc EXCEPT ![p] = "exited1"]
            /\ UNCHANGED <<pc, ret, mpc, meth, diag>>
       ELSE /\ proc' = [proc EXCEPT ![p] = "running"]
            /\ mpc' = [s \in Scrapers |->
                         IF host[s] = p /\ mpc[s] = "start" THEN "initialize" ELSE mpc[s]]
            /\ pc' = [s \in Scrapers |->
                         IF host[s] = p /\ mpc[s] = "start" THEN "launch" ELSE pc[s]]
            /\ ret' = [s \in Scrapers |->
                         IF host[s] = p /\ mpc[s] = "start" THEN "pending" ELSE ret[s]]
            /\ diag' = [s \in Scrapers |->
                         IF host[s] = p /\ mpc[s] = "start" /\ debug[s]
                         THEN diag[s] \cup {"log"} ELSE diag[s]]
            /\ meth' = [s \in Scrapers |->
                         IF host[s] = p /\ mpc[s] = "start" THEN "initialize" ELSE meth[s]]
    /\ UNCHANGED <<fixedVars, thisVars, err, calls, launches, closeCalls, browserVars, trace>>

\* Mutant: the catch block starts the attempt again instead of exiting.
MainCatchRetry(s) ==
    /\ mpc' = [mpc EXCEPT ![s] = "initialize"]
    /\ EnterInitialize(s)
    /\ UNCHANGED proc

\* Scraper.js:190-193  catch: console.error, then process.exit(1).  The process
\* ends there: the finally block of main() is not run.
MainCatch(s) ==
    /\ mpc' = [mpc EXCEPT ![s] = "exit"]
    /\ proc' = [proc EXCEPT ![host[s]] = "exited1"]
    /\ UNCHANGED <<pc, ret, diag, callVars>>

\* Scraper.js:184-185  initialize() has settled: login() is called, or the catch runs.
MainAfterInitialize(s) ==
    /\ mpc[s] = "initialize" /\ pc[s] = "returned" /\ Running(s)
    /\ IF ret[s] = "ok"
       THEN /\ mpc' = [mpc EXCEPT ![s] = "login"]
            /\ EnterLogin(s)
            /\ UNCHANGED proc
       ELSE MainCatch(s)
    /\ UNCHANGED <<fixedVars, thisVars, err, calls, launches, browserVars, trace>>

\* Scraper.js:185-189  login() has settled: the 30 s timer is started, or the catch runs.
MainAfterLogin(s) ==
    /\ mpc[s] = "login" /\ pc[s] = "returned" /\ Running(s)
    /\ IF ret[s] = "ok"
       THEN /\ mpc' = [mpc EXCEPT ![s] = "sleep"]
            /\ UNCHANGED <<proc, pc, ret, diag, callVars>>
       ELSE MainCatch(s)
    /\ UNCHANGED <<fixedVars, thisVars, err, calls, launches, browserVars, trace>>

\* Mutant: the timer's promise is never resolved, so main() stays suspended.
MainSleepNever(s) ==
    /\ FALSE
    /\ UNCHANGED vars

\* Scraper.js:189, 193-195  the timer fires: the try block is over and the
\* finally block calls close().
MainSleepDone(s) ==
    /\ mpc[s] = "sleep" /\ Running(s)
    /\ mpc' = [mpc EXCEPT ![s] = "close"]
    /\ EnterClose(s)
    /\ UNCHANGED <<fixedVars, proc, thisVars, err, calls, launches, browserVars, trace>>

\* Scraper.js:195-197  close() has settled: main() is over; when close() threw,
\* the promise of main() rejects with nobody handling it, which ends the process.
MainAfterClose(s) ==
    /\ mpc[s] = "close" /\ pc[s] = "returned" /\ Running(s)
    /\ IF ret[s] = "ok"
       THEN /\ mpc' = [mpc EXCEPT ![s] = "done"]
            /\ UNCHANGED proc
       ELSE /\ mpc' = [mpc EXCEPT ![s] = "rejected"]
            /\ proc' = [proc EXCEPT ![host[s]] = "exited1"]
    /\ UNCHANGED <<fixedVars, thisVars, pc, ret, err, calls, callVars, launches,
                   browserVars, trace, diag>>

----------------------------------------------------------------------------
\* The code that imported the module (Scraper.js:203  module.exports = Scraper)

\* new Scraper(options)  (Scraper.js:23-29)
ApiConstruct(s) ==
    /\ mpc[s] = "unborn" /\ Running(s)
    /\ \E d \in OptionValues, h \in OptionValues :
        /\ debug' = [debug EXCEPT ![s] = CtorDebug(d)]
        /\ headless' = [headless EXCEPT ![s] = CtorHeadless(h)]
        /\ diag' = [diag EXCEPT ![s] = IF CtorDebug(d) THEN {"log"} ELSE {}]
    /\ mpc' = [mpc EXCEPT ![s] = "ready"]
    /\ UNCHANGED <<fixedVars, proc, browser, page, pc, ret, err, calls, callVars,
                   launches, browserVars, trace>>

\* await scraper.initialize() / login() / close(), once the previous call has settled.
ApiCall(s, m) ==
    /\ mpc[s] = "ready" /\ pc[s] \in {"idle", "returned"} /\ Running(s)
    /\ calls[s] < MaxCalls
    /\ m = "initialize" => launches[s] < MaxLaunch
    /\ calls' = [calls EXCEPT ![s] = @ + 1]
    /\ trace' = [trace EXCEPT ![s] = <<>>]
    /\ Enter(s, m)
    /\ UNCHANGED <<fixedVars, proc, thisVars, err, mpc, launches, browserVars>>

----------------------------------------------------------------------------
InitCommon ==
    /\ env \in [requiredEnvVars -> EnvValues]
    /\ proc = [p \in Procs |-> "loading"]
    /\ browser = [s \in Scrapers |-> Null]
    /\ page = [s \in Scrapers |-> Null]
    /\ pc = [s \in Scrapers |-> "idle"]
    /\ ret = [s \in Scrapers |-> "none"]
    /\ err = [s \in Scrapers |-> "none"]
    /\ calls = [s \in Scrapers |-> 0]
    /\ launches = [s \in Scrapers |-> 0]
    /\ bst = [s \in Scrapers |-> [b \in BrowserIds |-> "none"]]
    /\ bcls = [s \in Scrapers |-> [b \in BrowserIds |-> 0]]
    /\ bopt = [s \in Scrapers |-> [b \in BrowserIds |-> FALSE]]
    /\ site = [s \in Scrapers |-> [b \in BrowserIds |-> "none"]]
    /\ meth = [s \in Scrapers |-> "none"]
    /\ closeCalls = [s \in Scrapers |-> 0]
    /\ trace = [s \in Scrapers |-> <<>>]
    /\ diag = [s \in Scrapers |-> {}]

\* One process: main() drives Scraper "m" with { debug: true, headless: false }
\* (Scraper.js:178-181) and the importing code drives its own Scraper "u".
Init ==
    /\ InitCommon
    /\ host = [s \in Scrapers |-> "p1"]
    /\ fate = NoFate
    /\ mpc = [s \in Scrapers |-> IF s = "m" THEN "start" ELSE "unborn"]
    /\ debug = [s \in Scrapers |-> IF s = "m" THEN CtorDebug("true") ELSE FALSE]
    /\ headless = [s \in Scrapers |-> IF s = "m" THEN CtorHeadless("false") ELSE TRUE]

Step(s) ==
    \/ Launch(s)
    \/ NewPage(s)
    \/ Goto(s)
    \/ ShotLoginPage(s)
    \/ TypeId(s)
    \/ TypePassword(s)
    \/ TypeCode(s)
    \/ ShotCreds(s)
    \/ Click(s)
    \/ WaitForNavigation(s)
    \/ ShotAfter(s)
    \/ LoginErrShot(s)
    \/ BrowserClose(s)

Main(s) ==
    \/ MainAfterInitialize(s)
    \/ MainAfterLogin(s)
    \/ MainSleepDone(s)
    \/ MainAfterClose(s)

Next ==
    \/ \E p \in Procs : Load(p)
    \/ \E s \in Scrapers : Step(s)
    \/ \E s \in Scrapers : InitErrShot(s)
    \/ \E s \in Scrapers : Main(s)
    \/ \E s \in Scrapers : ApiConstruct(s)
    \/ \E s \in Scrapers, m \in Methods : ApiCall(s, m)

Spec == Init /\ [][Next]_vars

----------------------------------------------------------------------------
\* Two runs of main() in two processes that differ only in the debug option
\* passed to the constructor (Scraper.js:179); every functional step of the
\* two runs settles the same way (fate), the screenshots settle freely.
InitDebug ==
    /\ InitCommon
    /\ missingVars = {}
    /\ host = [s \in Scrapers |-> IF s = "m" THEN "p1" ELSE "p2"]
    /\ fate \in [FunctionalSteps -> Outcomes]
    /\ mpc = [s \in Scrapers |-> "start"]
    /\ debug = [s \in Scrapers |-> IF s = "m" THEN CtorDebug("true") ELSE CtorDebug("false")]
    /\ headless = [s \in Scrapers |-> CtorHeadless("false")]

\* A run of main() never reaches the screenshot of initialize's catch block
\* (this.page is still null there), so that step is no part of these runs.
NextDebug ==
    \/ \E p \in Procs : Load(p)
    \/ \E s \in Scrapers : Step(s)
    \/ \E s \in Scrapers : Main(s)

SpecDebug == InitDebug /\ [][NextDebug]_vars

----------------------------------------------------------------------------
\* Two independent runs of main() as written ({ debug: true, headless: false },
\* Scraper.js:178-181) in two processes: every step of each run settles freely.
InitPair ==
    /\ InitCommon
    /\ host = [s \in Scrapers |-> IF s = "m" THEN "p1" ELSE "p2"]
    /\ fate = NoFate
    /\ mpc = [s \in Scrapers |-> "start"]
    /\ debug = [s \in Scrapers |-> CtorDebug("true")]
    /\ headless = [s \in Scrapers |-> CtorHeadless("false")]

SpecPair == InitPair /\ [][NextDebug]_vars

\* The same two runs when every awaited call settles (resolves or rejects),
\* the 30 s timer fires and node runs every continuation that is ready.
SpecLive ==
    /\ SpecPair
    /\ \A p \in Procs : WF_vars(Load(p))
    /\ \A s \in Scrapers : WF_vars(Step(s) \/ Main(s))

----------------------------------------------------------------------------
\* Properties

\* The run of main() on Scraper s is over: main() returned ("done"), its catch
\* block exited the process ("exit"), or its finally block threw ("rejected").
RunEnded(s) == mpc[s] \in {"done", "exit", "rejected"}

LiveBrowsers(s) == {b \in BrowserIds : bst[s][b] = "live"}

IsPageStep(e) == e[1] \in PageSteps
\* The page calls of login settled so far, in the order they settled.
LoginTrace(s) == SelectSeq(trace[s], IsPageStep)

IsStep(e, step) == e[1] = step
Count(s, step) == Cardinality({i \in 1..Len(trace[s]) : IsStep(trace[s][i], step)})

\* C1: when a run of main() is over and no close() call failed, no browser the
\* run launched is still running.
C1_NoLeakedBrowserAtRunEnd ==
    \A s \in Scrapers : mpc[s] \in {"done", "exit"} => LiveBrowsers(s) = {}

\* C2: when a run of main() is over, close() has been called exactly once on
\* its Scraper.
C2_CloseCalledExactlyOnce ==
    \A s \in Scrapers : RunEnded(s) => closeCalls[s] = 1

\* C3: close() can be called from any state and any number of times: once a
\* close() call has returned normally no browser referenced by the Scraper is
\* running, and no browser is asked to close more than once.  (close() fails
\* only when browser.close() itself rejects, which the code does not decide.)
C3_CloseIdempotent ==
    \A s \in Scrapers :
        /\ (meth[s] = "close" /\ pc[s] = "returned" /\ ret[s] = "ok" /\ browser[s] # Null)
              => bst[s][browser[s]] # "live"
        /\ \A b \in BrowserIds : bcls[s][b] <= 1

\* C4: the Scraper run by main() and the Scraper of the importing code never
\* have a running browser each at the same time.
C4_OneLiveSessionAtATime ==
    ~(LiveBrowsers("m") # {} /\ LiveBrowsers("u") # {})

\* C5: when a required credential is unset or empty, the process never gets to
\* run: nothing is launched, no browser call is made and no Scraper method is
\* entered.
C5_MissingCredentialStopsBeforeBrowser ==
    (\E v \in requiredEnvVars : env[v] \in {"unset", "empty"}) =>
        /\ \A p \in Procs : proc[p] # "running"
        /\ \A s \in Scrapers :
              /\ launches[s] = 0
              /\ trace[s] = <<>>
              /\ pc[s] = "idle"
              /\ meth[s] = "none"

C5_Witness ==
    /\ \A v \in requiredEnvVars : env[v] # "unset"
    /\ \E v \in requiredEnvVars : env[v] = "empty"
    /\ proc["p1"] = "exited1"

\* C6: a login() call that ended on a page showing the wrong-credentials
\* marker did not end normally.
C6_RejectionReportedAsFailure ==
    \A s \in Scrapers :
        (meth[s] = "login" /\ pc[s] = "returned" /\ page[s] # Null
            /\ site[s][page[s]] = "rejected")
        => ret[s] # "ok"

\* C7: a run of main() launches at most one browser and clicks the submit
\* button at most once, whatever fails.
C7_NoRetry ==
    \A s \in Scrapers :
        MainDriven(s) => launches[s] <= 1 /\ Count(s, "click") <= 1

C7_Witness ==
    /\ mpc["m"] = "exit"
    /\ meth["m"] = "login"
    /\ Count("m", "click") = 1
    /\ launches["m"] = 1
    /\ ret["m"] = "WaitForNavigationError"

\* C8: two runs of main() whose functional steps settle the same way, one with
\* debug and one without, have made the same functional steps and ended the
\* same way once both are over.
C8_DebugDoesNotAlterRun ==
    (RunEnded("m") /\ RunEnded("u")) =>
        /\ trace["m"] = trace["u"]
        /\ mpc["m"] = mpc["u"]
        /\ ret["m"] = ret["u"]

\* uninitialized 0, launched 1, navigated 2, authenticated 3, closed 4
SessionRank(s) ==
    IF browser[s] = Null THEN 0
    ELSE IF bst[s][browser[s]] = "closed" THEN 4
    ELSE CASE site[s][browser[s]] = "dashboard" -> 3
           [] site[s][browser[s]] \in {"loginForm", "rejected"} -> 2
           [] OTHER -> 1

SessionRankNext(s) ==
    IF browser'[s] = Null THEN 0
    ELSE IF bst'[s][browser'[s]] = "closed" THEN 4
    ELSE CASE site'[s][browser'[s]] = "dashboard" -> 3
           [] site'[s][browser'[s]] \in {"loginForm", "rejected"} -> 2
           [] OTHER -> 1

\* C9: in every step the session of a Scraper stays where it is or moves
\* forward; a Scraper that has launched a browser launches no other; and no
\* page call is made on a closed session.
C9_SessionOnlyMovesForward ==
    [][\A s \in Scrapers :
          /\ SessionRankNext(s) >= SessionRank(s)
          /\ launches[s] >= 1 => launches'[s] = launches[s]
          /\ SessionRank(s) = 4 => ~(pc'[s] \in PageSteps /\ pc[s] \notin PageSteps)]_vars

LoginOrder == <<"goto", "typeId", "typePassword", "typeCode", "click", "waitForNavigation">>

\* C10: the page calls a login() call has made so far are the first calls of
\* goto, type id, type password, type code, click, wait for navigation, in
\* that order, and each of them but the last one resolved.
C10_LoginStepsInOrder ==
    \A s \in Scrapers :
        /\ Len(LoginTrace(s)) <= Len(LoginOrder)
        /\ \A i \in 1..Len(LoginTrace(s)) :
              /\ LoginTrace(s)[i][1] = LoginOrder[i]
              /\ i < Len(LoginTrace(s)) => LoginTrace(s)[i][2] = "ok"

C10_Witness ==
    \E s \in Scrapers :
        /\ meth[s] = "login"
        /\ Len(LoginTrace(s)) = Len(LoginOrder)
        /\ LoginTrace(s)[Len(LoginOrder)][2] = "ok"

\* What the site or the page did to the login of the run of main() on s.
Cause(s) ==
    LET lt == LoginTrace(s) IN
    IF lt = <<>> THEN "none"
    ELSE LET last == lt[Len(lt)] IN
         CASE last = <<"waitForNavigation", "ok">> /\ site[s][page[s]] = "rejected"
                  -> "rejected"
           [] last = <<"waitForNavigation", "ok">> /\ site[s][page[s]] = "dashboard"
                  -> "accepted"
           [] last = <<"waitForNavigation", "fail">> -> "timeout"
           [] last[2] = "fail" /\ last[1] \in {"typeId", "typePassword", "typeCode", "click"}
                  -> "uiError"
           [] OTHER -> "other"

\* What the caller of a run of main() gets: how the run ended and the error
\* its catch block printed.
Reported(s) == <<mpc[s], ret[s]>>

\* C11: even when no screenshot rejects, a finished run whose login failed
\* by rejected credentials, no settlement or missing elements is reported as a
\* failure, and two such runs with different causes are reported differently.
C11_FailureKindIdentifiesCause ==
    LET Failed(s) == /\ RunEnded(s)
                     /\ Cause(s) \in {"rejected", "timeout", "uiError"}
                     /\ ret[s] # "ScreenshotError"
    IN /\ \A s \in Scrapers : Failed(s) => mpc[s] = "exit"
       /\ (Failed("m") /\ Failed("u") /\ Cause("m") # Cause("u"))
             => Reported("m") # Reported("u")

ShotPcs == {"initErrShot", "shotLoginPage", "shotCreds", "shotAfter", "loginErrShot"}

\* C12: a Scraper whose debug is off has emitted no debug log, registered no
\* page listener and taken no screenshot, and is not waiting for a screenshot.
C12_NoDiagnosticsWithoutDebug ==
    \A s \in Scrapers : ~debug[s] => diag[s] = {} /\ pc[s] \notin ShotPcs

C12_Witness ==
    /\ mpc["u"] = "ready" /\ ~debug["u"]
    /\ meth["u"] = "login" /\ pc["u"] = "returned"
    /\ ret["u"] = "ClickError"
    /\ diag["u"] = {}

\* C13: every run of main() whose awaited calls all settle comes to an end:
\* main() returns, or the process exits (at the credential check, in the
\* catch block, or on the rejection of main()).
C13_RunTerminates ==
    \A s \in Scrapers : <>(RunEnded(s) \/ proc[host[s]] = "exited1")

C13_Witness ==
    /\ mpc["m"] = "done"
    /\ Count("m", "waitForNavigation") = 1
    /\ Count("m", "browserClose") = 1
    /\ "shot" \in diag["m"]

\* C14: a Scraper never has more than one running browser, and a running
\* browser it launched is the one this.browser refers to.
C14_OneReferencedBrowserPerScraper ==
    \A s \in Scrapers :
        /\ Cardinality(LiveBrowsers(s)) <= 1
        /\ LiveBrowsers(s) \subseteq {browser[s]}

\* C15: once a page call of a login() call has rejected, no further page call
\* is made in that call (it is the last one recorded, and nothing but the
\* catch block's screenshot is awaited), the submit button is not clicked
\* in a call whose navigation or field fill rejected, and the call ends with
\* an error.
C15_LoginFailFast ==
    \A s \in Scrapers :
        \A i \in 1..Len(LoginTrace(s)) :
            (LoginTrace(s)[i][2] = "fail") =>
                (/\ i = Len(LoginTrace(s))
                 /\ meth[s] = "login"
                 /\ pc[s] \in {"loginErrShot", "returned"}
                 /\ (pc[s] = "returned" => ret[s] \notin {"ok", "pending", "none"})
                 /\ (LoginTrace(s)[i][1] \in {"goto", "typeId", "typePassword", "typeCode"}
                        => Count(s, "click") = 0))

C15_Witness ==
    \E s \in Scrapers :
        /\ meth[s] = "login" /\ pc[s] = "returned"
        /\ Len(LoginTrace(s)) = 4
        /\ LoginTrace(s)[4] = <<"typeCode", "fail">>
        /\ ret[s] = "TypeCodeError"

\* C16: whenever login() is the last method called on a Scraper that has no
\* page, the call has already ended with 'Page not initialized', no browser
\* call has been made in it, no screenshot is awaited, and this.browser and
\* this.page are as they were.
C16_LoginWithoutPage ==
    [][\A s \in Scrapers :
          (meth'[s] = "login" /\ page'[s] = Null) =>
              /\ pc'[s] = "returned"
              /\ ret'[s] = "PageNotInitialized"
              /\ trace'[s] = <<>>
              /\ browser'[s] = browser[s]
              /\ page'[s] = page[s]]_vars

C16_Witness ==
    /\ meth["u"] = "login" /\ page["u"] = Null
    /\ browser["u"] # Null
    /\ ret["u"] = "PageNotInitialized"

====
